---- MODULE Spec2Model ----
(***************************************************************************)
(* Model of MultirotorDynamics (dynamics/NewMultirotorDynamics.hpp): the   *)
(* 12-component state vector _x, the generalized forces _U1.._U4, _Omega,  *)
(* the motor-speed buffer _omegas, the motor count _nmotors, the airborne  *)
(* flag, and the four public operations init, setMotors, update, getState. *)
(*                                                                         *)
(* Numbers.  A C++ double is modelled by an integer, or by NaN for a       *)
(* non-finite value.  The vehicle constants are chosen so that every       *)
(* quotient the code forms is exact, so integer arithmetic and double      *)
(* arithmetic agree on the values the model reaches.  cos and sin are      *)
(* rounded to the nearest integer.  g and pi are rounded to integers.      *)
(*                                                                         *)
(* Two engine instances e1 and e2 of the same variant are constructed the  *)
(* same way and receive the same calls; e1 is "the engine" of the          *)
(* single-instance properties.                                             *)
(***************************************************************************)
EXTENDS Integers, Sequences, FiniteSets, TLC

VARIABLES e1, e2, out, err, hist, steps

vars == <<e1, e2, out, err, hist, steps>>

----------------------------------------------------------------------------
(* Bounds of the model *)

\* number of public calls made on the engine in one behaviour
MaxSteps == 3

----------------------------------------------------------------------------
(* Double arithmetic *)

\* a non-finite double; every arithmetic operation with it yields it
NaN == -(2^30)

Add(p, q) == IF p = NaN \/ q = NaN THEN NaN ELSE p + q

Sub(p, q) == IF p = NaN \/ q = NaN THEN NaN ELSE p - q

Mul(p, q) == IF p = NaN \/ q = NaN THEN NaN ELSE p * q

\* the divisors of the model divide exactly
Div(p, q) == IF p = NaN \/ q = NaN THEN NaN ELSE p \div q

Neg(p) == IF p = NaN THEN NaN ELSE 0 - p

\* cos of an angle in radians, rounded to the nearest integer:
\* 1 when cos >= 1/2, -1 when cos <= -1/2, else 0 (angles in milliradians,
\* reduced modulo 2*pi = 6283 mrad)
cos(a) ==
    IF a = NaN THEN NaN
    ELSE LET t == (a * 1000) % 6283
         IN  IF t <= 1047 \/ t >= 5236 THEN 1
             ELSE IF t >= 2094 /\ t <= 4189 THEN -1
             ELSE 0

\* sin(a) = cos(a - pi/2), rounded the same way
sin(a) ==
    IF a = NaN THEN NaN
    ELSE LET t == (a * 1000 - 1571) % 6283
         IN  IF t <= 1047 \/ t >= 5236 THEN 1
             ELSE IF t >= 2094 /\ t <= 4189 THEN -1
             ELSE 0

----------------------------------------------------------------------------
(* Universal constants *)

\* 9.80665 rounded to an integer
g == 10

\* 3.14159 rounded to an integer
pi == 3

----------------------------------------------------------------------------
(* The vehicle variant: a quad-X frame.  The variant's constants and its   *)
(* mixing functions are pure virtual in the base class.                    *)

\* the motor count the variant passes to the base-class constructor
NMOTORS == 4

b == 1

d == 1

m == 1

l == 2

Ix == 1

Iy == 1

Iz == 2

Jr == 1

maxrpm == 10

\* roll moment: right motors minus left motors (o is 1-based here)
u2(o) == Sub(Add(o[2], o[3]), Add(o[1], o[4]))

\* pitch moment: rear motors minus front motors
u3(o) == Sub(Add(o[2], o[4]), Add(o[1], o[3]))

\* yaw moment: clockwise motors minus counter-clockwise motors
u4(o) == Sub(Add(o[1], o[2]), Add(o[3], o[4]))

\* net signed rotor speed: the spin directions are those of the yaw moment
omega(o) == Sub(Add(o[1], o[2]), Add(o[3], o[4]))

----------------------------------------------------------------------------
(* The engine instance *)

\* double _x[12] = {0}
ZeroState == [i \in 1..12 |-> 0]

\* The object as the constructor leaves it.  _nmotors is assigned nowhere
\* and the buffer from new double[nmotors] is not initialised: both hold
\* indeterminate values, nm and buf.
Construct(nm, buf) ==
    [ x        |-> ZeroState,
      nmotors  |-> nm,
      omegas   |-> buf,
      airborne |-> FALSE,
      U1 |-> 0, U2 |-> 0, U3 |-> 0, U4 |-> 0, Omega |-> 0,
      oob      |-> FALSE ]

\* 1-based accessor x(j) of the state vector s
x(s, j) == s[j]

\* init without its zeroing loop: the rates keep their old values
InitBodyKeepsRates(e, position, rotation, airborne) ==
    [e EXCEPT
       !.x = [e.x EXCEPT ![1]  = position[1],
                         ![3]  = position[2],
                         ![5]  = position[3],
                         ![7]  = rotation[1],
                         ![9]  = rotation[2],
                         ![11] = rotation[3]],
       !.airborne = airborne]

\* init that also clears the stored forces
InitBodyClearsForces(e, position, rotation, airborne) ==
    [e EXCEPT
       !.x = [ZeroState EXCEPT ![1]  = position[1],
                               ![3]  = position[2],
                               ![5]  = position[3],
                               ![7]  = rotation[1],
                               ![9]  = rotation[2],
                               ![11] = rotation[3]],
       !.airborne = airborne,
       !.U1 = 0, !.U2 = 0, !.U3 = 0, !.U4 = 0, !.Omega = 0]

\* init(position, rotation, airborne): zero the state, then set the pose
InitBody(e, position, rotation, airborne) ==
    [e EXCEPT
       !.x = [ZeroState EXCEPT ![1]  = position[1],
                               ![3]  = position[2],
                               ![5]  = position[3],
                               ![7]  = rotation[1],
                               ![9]  = rotation[2],
                               ![11] = rotation[3]],
       !.airborne = airborne]

\* The right-hand side of the assignment to _x[k-1] (slot k, 1-based) in
\* update, evaluated on the array s with the forces stored in e
Rhs(s, e, k) ==
    CASE k = 1  -> x(s, 2)
      [] k = 2  -> Div(Mul(Add(Mul(Mul(cos(x(s,7)), sin(x(s,9))), cos(x(s,11))),
                               Mul(sin(x(s,7)), sin(x(s,11)))), e.U1), m)
      [] k = 3  -> x(s, 4)
      [] k = 4  -> Div(Mul(Add(Mul(Mul(cos(x(s,7)), sin(x(s,9))), sin(x(s,11))),
                               Mul(sin(x(s,7)), cos(x(s,11)))), e.U1), m)
      [] k = 5  -> x(s, 6)
      [] k = 6  -> Add(Neg(g), Div(Mul(Mul(cos(x(s,7)), cos(x(s,9))), e.U1), m))
      [] k = 7  -> x(s, 8)
      [] k = 8  -> Add(Sub(Div(Mul(Mul(x(s,12), x(s,10)), Sub(Iy, Iz)), Ix),
                           Mul(Mul(Div(Jr, Ix), x(s,10)), e.Omega)),
                       Mul(Div(l, Ix), e.U2))
      [] k = 9  -> x(s, 10)
      [] k = 10 -> Add(Add(Div(Mul(Mul(x(s,12), x(s,8)), Sub(Iz, Ix)), Iy),
                           Mul(Mul(Div(Jr, Iy), x(s,8)), e.Omega)),
                       Mul(Div(l, Iy), e.U3))
      [] k = 11 -> x(s, 12)
      [] k = 12 -> Add(Div(Mul(Mul(x(s,10), x(s,8)), Sub(Ix, Iy)), Iz),
                       Mul(Div(l, Iz), e.U4))

\* The array after the first k assignments of update, made in program
\* order on s: each right-hand side reads the array as the assignments
\* before it left it
RECURSIVE Assign(_, _, _)
Assign(s, e, k) ==
    IF k = 0 THEN s
    ELSE LET t == Assign(s, e, k - 1)
         IN  [t EXCEPT ![k] = Rhs(t, e, k)]

\* update(dt): the twelve assignments; dt is not read
UpdateBody(e, dt) == [e EXCEPT !.x = Assign(e.x, e, 12)]

\* motorvals[i] for the 0-based index i: past the end of the caller's array
\* the read yields whatever the memory there holds (past)
MotorVal(motorvals, past, i) ==
    IF i < Len(motorvals) THEN motorvals[i + 1] ELSE past

\* motorvals[i] * maxrpm() * pi / 30
RadPerSec(motorvals, past, i) ==
    Div(Mul(Mul(MotorVal(motorvals, past, i), maxrpm), pi), 30)

\* _U1 accumulated by the iterations 0..k-1 of the first loop
RECURSIVE SumOmegas(_, _, _)
SumOmegas(motorvals, past, k) ==
    IF k <= 0 THEN 0
    ELSE Add(SumOmegas(motorvals, past, k - 1), RadPerSec(motorvals, past, k - 1))

\* setMotors(motorvals): nothing is validated and nothing is reported.
\* Both loops run i = 0.._nmotors-1; buffer entries at i >= _nmotors keep
\* what they held.  oob records that an index outside an array was used:
\* i >= NMOTORS is outside the buffer, i >= Len(motorvals) outside the
\* caller's array.  A write outside the buffer lands in memory that is none
\* of the instance's fields.
SetMotorsBody(e, motorvals, past) ==
    LET n    == e.nmotors
        om1  == [j \in 1..NMOTORS |->
                   IF j <= n THEN RadPerSec(motorvals, past, j - 1) ELSE e.omegas[j]]
        om2  == [j \in 1..NMOTORS |->
                   IF j <= n THEN Mul(om1[j], om1[j]) ELSE om1[j]]
    IN  [e EXCEPT
           !.U1     = Mul(SumOmegas(motorvals, past, n), b),
           !.omegas = om2,
           !.Omega  = omega(om1),
           !.U2     = Mul(b, u2(om2)),
           !.U3     = Mul(b, u3(om2)),
           !.U4     = Mul(d, u4(om2)),
           !.oob    = e.oob \/ n > NMOTORS \/ n > Len(motorvals)]

\* getState(angularVelocity, eulerAngles, velocityXYZ, positionXYZ): the
\* body is empty, the caller's four arrays (o) keep what they held
GetStateBody(e, o) == o

----------------------------------------------------------------------------
(* Inputs *)

\* indeterminate values of the unassigned _nmotors: below, at and above the
\* count given to the constructor
IndeterminateCounts == {0, NMOTORS, NMOTORS + 1}

\* indeterminate contents of the freshly allocated buffer
IndeterminateBuffers == { [j \in 1..NMOTORS |-> 0],
                          [j \in 1..NMOTORS |-> IF j = 1 THEN 1 ELSE 0] }

\* indeterminate value of the memory past the end of the caller's array
IndeterminateVals == {0, 1}

Positions == { <<0, 0, 0>>, <<1, 2, 3>> }

Rotations == { <<0, 0, 0>>, <<1, 0, 2>> }

\* well-formed commands (NMOTORS values in [0,1]), arrays of a wrong length,
\* and a non-finite command
Commands == { <<0, 0, 0, 0>>, <<1, 1, 1, 1>>, <<1, 0, 0, 0>>, <<0, 1, 0, 1>>,
              <<1, 1, 1>>, <<1, 1, 1, 1, 1>>, <<1, NaN, 1, 1>> }

\* the values a call of setMotors on e can read past the end of motorvals:
\* none is read when the loop stays inside the array
PastOf(e, motorvals) ==
    IF e.nmotors > Len(motorvals) THEN IndeterminateVals ELSE {0}

\* time steps handed to update
Dts == {1, 2}

\* what the caller's four output arrays hold before a getState call
Outputs == [angularVelocity : {<<7, 7, 7>>}, eulerAngles : {<<7, 7, 7>>},
            velocityXYZ : {<<7, 7, 7>>}, positionXYZ : {<<0, 0, 0>>, <<7, 7, 7>>}]

\* hist holds the two most recent calls, the latest last
Record(h, call) == IF Len(h) >= 2 THEN <<h[Len(h)], call>> ELSE Append(h, call)

----------------------------------------------------------------------------
(* The calls *)

Init ==
    /\ \E nm \in IndeterminateCounts, buf \in IndeterminateBuffers :
           e1 = Construct(nm, buf)
    /\ \E nm \in IndeterminateCounts, buf \in IndeterminateBuffers :
           e2 = Construct(nm, buf)
    /\ out = [angularVelocity |-> <<7, 7, 7>>, eulerAngles |-> <<7, 7, 7>>,
              velocityXYZ |-> <<7, 7, 7>>, positionXYZ |-> <<7, 7, 7>>]
    /\ err = "none"
    /\ hist = << >>
    /\ steps = 0

init ==
    /\ steps < MaxSteps
    /\ steps' = steps + 1
    /\ \E position \in Positions, rotation \in Rotations, airborne \in BOOLEAN :
         /\ e1' = InitBody(e1, position, rotation, airborne)
         /\ e2' = InitBody(e2, position, rotation, airborne)
         /\ hist' = Record(hist, [name |-> "init", position |-> position,
                                  rotation |-> rotation, airborne |-> airborne])
    /\ UNCHANGED <<out, err>>

setMotors ==
    /\ steps < MaxSteps
    /\ steps' = steps + 1
    /\ \E motorvals \in Commands :
       \E past1 \in PastOf(e1, motorvals), past2 \in PastOf(e2, motorvals) :
         /\ e1' = SetMotorsBody(e1, motorvals, past1)
         /\ e2' = SetMotorsBody(e2, motorvals, past2)
         /\ hist' = Record(hist, [name |-> "setMotors", motorvals |-> motorvals])
    /\ UNCHANGED <<out, err>>

update ==
    /\ steps < MaxSteps
    /\ steps' = steps + 1
    /\ \E dt \in Dts :
         /\ e1' = UpdateBody(e1, dt)
         /\ e2' = UpdateBody(e2, dt)
         /\ hist' = Record(hist, [name |-> "update", dt |-> dt])
    /\ UNCHANGED <<out, err>>

getState ==
    /\ steps < MaxSteps
    /\ steps' = steps + 1
    /\ \E o \in Outputs :
         /\ out' = GetStateBody(e1, o)
         /\ hist' = Record(hist, [name |-> "getState", before |-> o])
    /\ UNCHANGED <<e1, e2, err>>

Next == init \/ setMotors \/ update \/ getState

Spec == Init /\ [][Next]_vars

----------------------------------------------------------------------------
(* Vocabulary of the properties *)

\* the stored generalized forces of an instance
Forces(e) == <<e.U1, e.U2, e.U3, e.U4, e.Omega>>

\* the most recent call
Last == hist[Len(hist)]

\* the step just taken is a call of the named operation
Called(name) == steps' = steps + 1 /\ hist'[Len(hist')].name = name

\* the indices setMotors uses on the buffer of e and on the command array
UsedIndices(e) == 0..(e.nmotors - 1)

\* the 12-state vector of a vehicle at rest at the pose (p, r)
PoseVector(p, r) == <<p[1], 0, p[2], 0, p[3], 0, r[1], 0, r[2], 0, r[3], 0>>

\* a command array setMotors ought to reject
WrongLength(motorvals) == Len(motorvals) # NMOTORS

NonFinite(motorvals) == \E i \in 1..Len(motorvals) : motorvals[i] = NaN

----------------------------------------------------------------------------
\* C1: after init(p, r, airborne=false), getState writes p into the position
\* output, r into the Euler-angle output and 0 into every component of the
\* linear-velocity and angular-velocity outputs, whatever they held before.
C1_GetStateAfterInit ==
    ( /\ Len(hist) = 2
      /\ hist[1].name = "init" /\ ~hist[1].airborne
      /\ hist[2].name = "getState" )
    => /\ out.positionXYZ     = hist[1].position
       /\ out.eulerAngles     = hist[1].rotation
       /\ out.velocityXYZ     = <<0, 0, 0>>
       /\ out.angularVelocity = <<0, 0, 0>>

\* C2: update(dt) is an explicit Euler step scaled by dt: each of the 12
\* components after update equals its value before plus dt times its
\* derivative (the right-hand side of its slot, evaluated before the call).
\* From a pose at rest with zero forces this leaves vertical velocity -g*dt
\* and the position slots at p.
C2_EulerStepScaledByDt ==
    [][ Called("update") =>
          \A k \in 1..12 :
             e1'.x[k] = Add(e1.x[k], Mul(hist'[Len(hist')].dt, Rhs(e1.x, e1, k)))
      ]_vars

\* C3: in one update call the in-place sequential assignment of the 12 slots
\* yields what computing all 12 right-hand sides from the state before the
\* call and writing them together yields.  (Stated for the instances whose
\* motor count is the constructor's n and whose calls stayed inside their
\* arrays, so that a violation owes nothing to an indeterminate value.)
C3_SequentialEqualsSnapshot ==
    [][ ( Called("update") /\ e1.nmotors = NMOTORS /\ ~e1.oob )
        => e1'.x = [k \in 1..12 |-> Rhs(e1.x, e1, k)] ]_vars

\* C4: a setMotors call with a command array of the wrong length reports
\* ConfigurationError, one with a non-finite command reports NumericalError,
\* and either leaves the 12-state vector and the stored forces as they were.
C4_InvalidInputRejected ==
    [][ ( /\ Called("setMotors")
          /\ \/ WrongLength(hist'[Len(hist')].motorvals)
             \/ NonFinite(hist'[Len(hist')].motorvals) )
        => /\ err' = IF WrongLength(hist'[Len(hist')].motorvals)
                     THEN "ConfigurationError" ELSE "NumericalError"
           /\ e1'.x = e1.x
           /\ Forces(e1') = Forces(e1)
      ]_vars

\* C5: the engine is Airborne after init(pose, airborne=true), and it becomes
\* Airborne, with no further init, once an update produces non-zero vertical
\* motion from the Grounded state init(pose, airborne=false) left, with zero
\* thrust.
C5_AirborneEntered ==
    [][ /\ ( Called("init") /\ hist'[Len(hist')].airborne ) => e1'.airborne
        /\ ( /\ Called("update")
             /\ Len(hist) >= 1 /\ Last.name = "init" /\ ~Last.airborne
             /\ e1.U1 = 0
             /\ e1'.x[6] # 0 )
           => e1'.airborne
      ]_vars

\* C6: init is a full reset and idempotent: whatever calls came before,
\* init(p, r, a) leaves the 12-state vector (p0,0,p1,0,p2,0,r0,0,r1,0,r2,0)
\* and the airborne flag a, and the same init called again right afterwards
\* changes nothing of the instance.
C6_InitResetsAndIsIdempotent ==
    [][ Called("init") =>
          /\ e1'.x = PoseVector(hist'[Len(hist')].position,
                                hist'[Len(hist')].rotation)
          /\ e1'.airborne = hist'[Len(hist')].airborne
          /\ ( Len(hist) >= 1 /\ hist'[Len(hist')] = Last ) => e1' = e1
      ]_vars

\* C6 witness: init was called twice in a row with the same non-zero pose on
\* an instance whose forces an earlier setMotors had set
C6_Witness ==
    /\ Len(hist) = 2
    /\ hist[1].name = "init" /\ hist[2] = hist[1]
    /\ hist[1].position = <<1, 2, 3>> /\ hist[1].rotation = <<1, 0, 2>>
    /\ e1.U1 # 0
    /\ e1.x = PoseVector(<<1, 2, 3>>, <<1, 0, 2>>)

\* C7: setMotors with all n commands equal to 0 leaves U1 = U2 = U3 = U4 = 0
\* and Omega = 0, whatever earlier calls stored.
C7_ZeroCommandsZeroForces ==
    ( /\ Len(hist) >= 1
      /\ Last.name = "setMotors"
      /\ Last.motorvals = [i \in 1..NMOTORS |-> 0] )
    => Forces(e1) = <<0, 0, 0, 0, 0>>

\* C8: two instances of the same variant, constructed the same way and
\* driven by the same calls, hold identical 12-state vectors and identical
\* stored forces after every step.
C8_Deterministic ==
    /\ e1.x = e2.x
    /\ Forces(e1) = Forces(e2)

\* C9: the motor count is fixed at construction: the count setMotors uses is
\* the n the constructor was given, so a setMotors call reads commands
\* 0..n-1 and writes entries 0..n-1 of the buffer, never an index outside it.
C9_MotorCountFixed ==
    ( Len(hist) >= 1 /\ Last.name = "setMotors" )
    => /\ e1.nmotors = NMOTORS
       /\ UsedIndices(e1) = 0..(NMOTORS - 1)

====
